---- MODULE Spec2Model ----
(***************************************************************************)
(* Aggregation & intelligence engine of src/app.py: the cached feed        *)
(* fetcher, the filter/sort pipeline, the fallback chain, the concurrent   *)
(* aggregation run and the historical/live merge.                          *)
(*                                                                         *)
(* Strings are sequences of one-character strings.  A publish date is the  *)
(* raw string of the feed, represented by its format, whether it carries   *)
(* a time zone, and the instant it denotes.                                *)
(***************************************************************************)
EXTENDS Integers, Sequences, FiniteSets, TLC

VARIABLES
    \* the cache of fetch_rss_feed (st.cache_data)
    now,            \* the clock, in seconds
    cache,          \* url -> stored entry
    upstream,       \* url -> what the remote feed holds now
    lastCall,       \* the last call of the cached fetch_rss_feed
    \* fetch_and_filter, one call
    entries,        \* what fetch_rss_feed(url) returned
    query,          \* the lower-cased query
    limit,          \* the limit argument
    ffPc,           \* "call" | "returned"
    ffResult,       \* the returned list
    \* fetch_podcast_with_fallback, one call
    rss_urls,       \* the argument: one URL (a str) or a list of URLs
    urlFeed,        \* url -> what fetch_rss_feed returns for it
    fbQuery,        \* the query argument
    fbIdx,          \* position of the for loop in rss_urls
    attempts,       \* the URLs fetch_and_filter was called on, in call order
    inflight,       \* the URLs whose fetch_and_filter call has not returned
    fbPc,           \* "loop" | "fetching" | "returned"
    eps,            \* the returned list
    \* one aggregation run over a worker pool
    mode,           \* "feeds": fetch_feeds_concurrently, "podcasts": _podcast_tab
    raw,            \* label -> the entries of the label's remote feed
    search_q,       \* the query argument
    task,           \* label -> "queued" | "running" | "hung" | "done" | "collected"
    net,            \* label -> how the remote source answered
    future,         \* label -> the outcome of the task's future
    results,        \* the mapping being built, in insertion order
    aggPc,          \* "collecting" | "returned" | "raised"
    \* get_rkt_stock_data, the merge
    historical_df,  \* rows of the sheet, as get_rkt_historical_from_sheet returns them
    r_text,         \* what the API endpoint answers to the request
    live_df,        \* rows of the API, as the fetch leaves them
    mPc,            \* "call" | "returned"
    combined,       \* the returned series
    \* get_mortgage_data
    fred,           \* series name -> what its endpoint answers
    data,           \* the returned table
    gPc,            \* "call" | "returned"
    \* parse_guest, one call
    title,          \* the argument
    guest,          \* the returned string
    pgPc,           \* "call" | "returned"
    \* the trends section
    podcast_data,   \* show -> episodes, in the order of the mapping
    news_data,      \* source -> articles, in the order of the mapping
    trending_guests,\* first result of analyze_podcast_trends
    popular_topics, \* second result of analyze_podcast_trends
    emerging,       \* result of analyze_emerging_topics
    taPc,           \* "podcasts" | "news" | "trends" | "emerging"
    \* fetch_rss_feed followed by fetch_and_filter
    remote,         \* feed.entries of the parsed remote feed
    reply           \* "ok" | "error": how the remote answers the fetch

cacheVars == <<now, cache, upstream, lastCall>>
ffVars == <<entries, query, limit, ffPc, ffResult>>
fbVars == <<rss_urls, urlFeed, fbQuery, fbIdx, attempts, inflight, fbPc, eps>>
aggVars == <<mode, raw, search_q, task, net, future, results, aggPc>>
mergeVars == <<historical_df, r_text, live_df, mPc, combined>>

mortVars == <<fred, data, gPc>>
guestVars == <<title, guest, pgPc>>
textVars ==
    <<podcast_data, news_data, trending_guests, popular_topics, emerging, taPc>>
pipeVars == <<remote, reply>>
extVars == <<mortVars, guestVars, textVars, pipeVars>>

vars == <<cacheVars, ffVars, fbVars, aggVars, mergeVars, extVars>>

(***************************************************************************)
(* Bounds and program constants                                            *)
(***************************************************************************)
MaxFeedLen == 3
MaxRows == 2
MaxChain == 3
MaxLabels == 3
Step == 300
MaxTime == 1200
MaxTitleLen == 4
MaxShows == 3
MaxExtraUrls == 2

ttl == 600
max_entries == 128
max_workers == 8
MAX_FRED_DAYS == 180

MAX_ENTRIES_PER_FEED == 8
SummaryMax == 300
DefaultLimit == 8

Min(a, b) == IF a < b THEN a ELSE b

Range(s) == {s[i] : i \in DOMAIN s}

(***************************************************************************)
(* Each specification below runs one part of the engine; the variables of  *)
(* the other parts rest at these values.                                   *)
(***************************************************************************)
CacheIdle ==
    /\ now = 0
    /\ cache = <<>>
    /\ upstream = <<>>
    /\ lastCall = <<>>

FilterIdle ==
    /\ entries = <<>>
    /\ query = <<>>
    /\ limit = 0
    /\ ffPc = "idle"
    /\ ffResult = <<>>

FallbackIdle ==
    /\ rss_urls = [isStr |-> FALSE, urls |-> <<>>]
    /\ urlFeed = <<>>
    /\ fbQuery = <<>>
    /\ fbIdx = 0
    /\ attempts = <<>>
    /\ inflight = {}
    /\ fbPc = "idle"
    /\ eps = <<>>

AggIdle ==
    /\ mode = "idle"
    /\ raw = <<>>
    /\ search_q = <<>>
    /\ task = <<>>
    /\ net = <<>>
    /\ future = <<>>
    /\ results = <<>>
    /\ aggPc = "idle"

MergeIdle ==
    /\ historical_df = <<>>
    /\ r_text = <<>>
    /\ live_df = <<>>
    /\ mPc = "idle"
    /\ combined = <<>>

MortgageIdle ==
    /\ fred = <<>>
    /\ data = <<>>
    /\ gPc = "idle"

GuestIdle ==
    /\ title = <<>>
    /\ guest = <<>>
    /\ pgPc = "idle"

TextIdle ==
    /\ podcast_data = <<>>
    /\ news_data = <<>>
    /\ trending_guests = <<>>
    /\ popular_topics = <<>>
    /\ emerging = <<>>
    /\ taPc = "idle"

PipeIdle == remote = <<>> /\ reply = "none"

ExtIdle == MortgageIdle /\ GuestIdle /\ TextIdle /\ PipeIdle

(***************************************************************************)
(* Strings                                                                 *)
(***************************************************************************)
UpperCase ==
    <<"A", "B", "C", "D", "E", "F", "G", "H", "I", "J", "K", "L", "M",
      "N", "O", "P", "Q", "R", "S", "T", "U", "V", "W", "X", "Y", "Z">>

LowerCase ==
    <<"a", "b", "c", "d", "e", "f", "g", "h", "i", "j", "k", "l", "m",
      "n", "o", "p", "q", "r", "s", "t", "u", "v", "w", "x", "y", "z">>

\* str.lower() on one character
LowerChar(c) ==
    IF \E i \in DOMAIN UpperCase : UpperCase[i] = c
    THEN LowerCase[CHOOSE i \in DOMAIN UpperCase : UpperCase[i] = c]
    ELSE c

\* str.lower()
Lower(s) == [i \in DOMAIN s |-> LowerChar(s[i])]

\* q in s (substring test; the empty string is in every string)
Contains(s, q) ==
    \E k \in 0..(Len(s) - Len(q)) :
        \A i \in 1..Len(q) : s[k + i] = q[i]

\* s[:n]
Take(s, n) == SubSeq(s, 1, Min(Len(s), n))

(***************************************************************************)
(* Feed entries                                                            *)
(***************************************************************************)
Missing == [kind |-> "missing", tz |-> FALSE, t |-> 0]
Garbage == [kind |-> "garbage", tz |-> FALSE, t |-> 0]

\* The publish dates a feed may carry: none, an unparseable one, RFC-2822
\* with and without a zone, ISO-8601 with and without a zone.
PublishedPool ==
    { Missing, Garbage,
      [kind |-> "rfc2822", tz |-> TRUE,  t |-> 1],
      [kind |-> "rfc2822", tz |-> FALSE, t |-> 2],
      [kind |-> "iso8601", tz |-> TRUE,  t |-> 2],
      [kind |-> "iso8601", tz |-> FALSE, t |-> 1] }

TextPool ==
    { [title |-> <<"A", "b">>, summary |-> <<>>],
      [title |-> <<>>,         summary |-> <<"a", "B">>],
      [title |-> <<"b", "a">>, summary |-> <<>>] }

QueryPool == { <<>>, <<"a", "b">> }

LimitPool == { 2, DefaultLimit }

\* The slim record fetch_rss_feed stores; link identifies the entry (its
\* position in the upstream feed).
Entry(text, pub, lnk) ==
    [title |-> text.title, link |-> lnk, published |-> pub,
     summary |-> text.summary]

\* The stored feed of Len(f) entries built from texts and dates f
FeedOf(f) == [i \in DOMAIN f |-> Entry(f[i][1], f[i][2], i)]

(***************************************************************************)
(* fetch_and_filter                                                        *)
(***************************************************************************)
\* datetime.min: naive, before every other instant
DatetimeMin == [aware |-> FALSE, t |-> 0]

\* email.utils.parsedate_to_datetime: raises unless the string is RFC-2822
ParsedateRaises(pub) == pub.kind # "rfc2822"

\* datetime.fromisoformat(s.replace('Z', '+00:00')): raises unless ISO-8601
FromisoformatRaises(pub) == pub.kind # "iso8601"

parse_date(pub) ==
    IF pub.kind = "missing" THEN DatetimeMin
    ELSE IF ~ParsedateRaises(pub) THEN [aware |-> pub.tz, t |-> pub.t]
    ELSE IF ~FromisoformatRaises(pub) THEN [aware |-> pub.tz, t |-> pub.t]
    ELSE DatetimeMin

\* query in title or query in summary, both lower-cased
Matches(e, q) == Contains(Lower(e.title), q) \/ Contains(Lower(e.summary), q)

\* the filtered list, in feed order; an empty query keeps every entry
Filtered(es, q) ==
    IF q = <<>> THEN es ELSE SelectSeq(es, LAMBDA e : Matches(e, q))

\* comparing an offset-naive with an offset-aware datetime raises TypeError;
\* a sort compares across any two classes of keys it holds
SortRaises(es) ==
    \E i, j \in DOMAIN es :
        parse_date(es[i].published).aware # parse_date(es[j].published).aware

\* a descending sort that puts an entry ahead of the entries equal to it
InsertDesc_TiesReversed(sorted, e) ==
    LET k == parse_date(e.published).t
        n == Cardinality({i \in DOMAIN sorted :
                            parse_date(sorted[i].published).t > k})
    IN SubSeq(sorted, 1, n) \o <<e>> \o SubSeq(sorted, n + 1, Len(sorted))

\* insert e into a list sorted newest first, after every entry at least as new
InsertDesc(sorted, e) ==
    LET k == parse_date(e.published).t
        n == Cardinality({i \in DOMAIN sorted :
                            parse_date(sorted[i].published).t >= k})
    IN SubSeq(sorted, 1, n) \o <<e>> \o SubSeq(sorted, n + 1, Len(sorted))

RECURSIVE SortNewestFirst(_)
\* list.sort(key=_date, reverse=True): stable, descending
SortNewestFirst(es) ==
    IF es = <<>> THEN <<>>
    ELSE InsertDesc(SortNewestFirst(SubSeq(es, 1, Len(es) - 1)), es[Len(es)])

\* the try body of fetch_and_filter raises: the sort of the kept entries does
BodyRaises(es, q) == es # <<>> /\ SortRaises(Filtered(es, q))

\* fetch_and_filter on the list fetch_rss_feed returned; any exception in the
\* body is caught and gives []
fetch_and_filter(es, q, lim) ==
    IF es = <<>> THEN <<>>
    ELSE IF BodyRaises(es, q) THEN <<>>
    ELSE Take(SortNewestFirst(Filtered(es, q)), lim)

FilterInit ==
    /\ \E n \in 0..MaxFeedLen :
          \E f \in [1..n -> TextPool \X PublishedPool] : entries = FeedOf(f)
    /\ query \in QueryPool
    /\ limit \in LimitPool
    /\ ffPc = "call"
    /\ ffResult = <<>>
    /\ CacheIdle /\ FallbackIdle /\ AggIdle /\ MergeIdle /\ ExtIdle

FilterCall ==
    /\ ffPc = "call"
    /\ ffResult' = fetch_and_filter(entries, query, limit)
    /\ ffPc' = "returned"
    /\ UNCHANGED <<entries, query, limit>>
    /\ UNCHANGED <<cacheVars, fbVars, aggVars, mergeVars, extVars>>

FilterNext == FilterCall

SpecFilter == FilterInit /\ [][FilterNext]_vars

(***************************************************************************)
(* fetch_rss_feed (the function under the cache)                           *)
(***************************************************************************)
\* the slim dict stored for one upstream entry: summary cut to 300 characters
Slim(e) ==
    [title |-> e.title, link |-> e.link, published |-> e.published,
     summary |-> Take(e.summary, SummaryMax)]

\* fetch_rss_feed(url) when the remote answers answer ("ok" | "error") and
\* holds the entries feed: [] on an exception and on a feed without entries
fetch_rss_feed(answer, feed) ==
    IF answer # "ok" \/ feed = <<>> THEN <<>>
    ELSE [i \in 1..Min(Len(feed), MAX_ENTRIES_PER_FEED) |-> Slim(feed[i])]

(***************************************************************************)
(* fetch_and_filter(url, query, limit) from the remote feed on: the fetch  *)
(* of fetch_rss_feed, then the filter, the sort and the cut                *)
(***************************************************************************)
\* what an entry of the remote feed may carry
PipeTexts ==
    { [title |-> <<"A", "b">>, summary |-> <<>>],
      [title |-> <<"b", "a">>, summary |-> <<>>] }

PipeDates ==
    { Missing,
      [kind |-> "rfc2822", tz |-> TRUE, t |-> 1],
      [kind |-> "iso8601", tz |-> TRUE, t |-> 2] }

\* k older entries that do not match the query
Older(k) ==
    [i \in 1..k |->
        <<[title |-> <<"b", "a">>, summary |-> <<>>],
          [kind |-> "rfc2822", tz |-> TRUE, t |-> 1]>>]

PipeInit ==
    /\ \E k \in {0, MAX_ENTRIES_PER_FEED - 1, MAX_ENTRIES_PER_FEED} :
          \E n \in 0..MaxFeedLen :
             \E f \in [1..n -> PipeTexts \X PipeDates] :
                remote = FeedOf(Older(k) \o f)
    /\ reply \in {"ok", "error"}
    /\ query \in QueryPool
    /\ limit \in LimitPool
    /\ entries = <<>>
    /\ ffPc = "fetch"
    /\ ffResult = <<>>
    /\ CacheIdle /\ FallbackIdle /\ AggIdle /\ MergeIdle
    /\ MortgageIdle /\ GuestIdle /\ TextIdle

\* fetch_and_filter(url, query, limit) on a cache miss
PipeCall ==
    /\ ffPc = "fetch"
    /\ \E es \in {fetch_rss_feed(reply, remote)} :
          /\ entries' = es
          /\ ffResult' = fetch_and_filter(es, query, limit)
    /\ ffPc' = "piped"
    /\ UNCHANGED <<query, limit, pipeVars>>
    /\ UNCHANGED <<cacheVars, fbVars, aggVars, mergeVars, mortVars, guestVars,
                   textVars>>

PipeNext == PipeCall

SpecPipe == PipeInit /\ [][PipeNext]_vars

(***************************************************************************)
(* fetch_podcast_with_fallback                                             *)
(***************************************************************************)
Urls == {1, 2, 3}

MatchingText == [title |-> <<"A", "b">>, summary |-> <<>>]
OtherText == [title |-> <<"b", "a">>, summary |-> <<>>]

\* what fetch_rss_feed returns for url u: nothing, or one entry of u
UrlFeedChoice(u, k) ==
    IF k = 0 THEN <<>>
    ELSE IF k = 1 THEN <<Entry(MatchingText, Missing, u)>>
    ELSE <<Entry(OtherText, Missing, u)>>

\* `if eps:` always true, so the loop never stops early
FallbackStops_Never(e) == FALSE

\* `if eps:` of the loop: a non-empty result ends the loop
FallbackStops(e) == e # <<>>

RECURSIVE FallbackFrom(_, _, _, _)
\* the for loop of fetch_podcast_with_fallback from position i on
FallbackFrom(urls, i, q, feeds) ==
    IF i > Len(urls) THEN <<>>
    ELSE LET e == fetch_and_filter(feeds[urls[i]], q, DefaultLimit)
         IN IF FallbackStops(e) THEN e ELSE FallbackFrom(urls, i + 1, q, feeds)

\* fetch_podcast_with_fallback(rss_urls, query) as a function of what
\* fetch_rss_feed returns for every URL
fetch_podcast_with_fallback(src, q, feeds) ==
    IF src.isStr THEN fetch_and_filter(feeds[src.urls[1]], q, DefaultLimit)
    ELSE FallbackFrom(src.urls, 1, q, feeds)

FallbackInit ==
    /\ \/ \E u \in Urls : rss_urls = [isStr |-> TRUE, urls |-> <<u>>]
       \/ \E n \in 0..MaxChain :
             \E c \in [1..n -> Urls] : rss_urls = [isStr |-> FALSE, urls |-> c]
    /\ \E f \in [Urls -> {0, 1, 2}] :
          urlFeed = [u \in Urls |-> UrlFeedChoice(u, f[u])]
    /\ fbQuery \in QueryPool
    /\ fbIdx = 1
    /\ attempts = <<>>
    /\ inflight = {}
    /\ fbPc = "loop"
    /\ eps = <<>>
    /\ CacheIdle /\ FilterIdle /\ AggIdle /\ MergeIdle /\ ExtIdle

\* isinstance(rss_urls, str): one call of fetch_and_filter, returned as is
FbStr ==
    /\ fbPc = "loop"
    /\ rss_urls.isStr
    /\ attempts' = Append(attempts, rss_urls.urls[1])
    /\ eps' = fetch_and_filter(urlFeed[rss_urls.urls[1]], fbQuery, DefaultLimit)
    /\ fbPc' = "returned"
    /\ UNCHANGED <<rss_urls, urlFeed, fbQuery, fbIdx, inflight>>
    /\ UNCHANGED <<cacheVars, ffVars, aggVars, mergeVars, extVars>>

\* the loop calls fetch_and_filter on the next URL
FbBegin ==
    /\ fbPc = "loop"
    /\ ~rss_urls.isStr
    /\ fbIdx <= Len(rss_urls.urls)
    /\ attempts' = Append(attempts, rss_urls.urls[fbIdx])
    /\ inflight' = inflight \cup {rss_urls.urls[fbIdx]}
    /\ fbPc' = "fetching"
    /\ UNCHANGED <<rss_urls, urlFeed, fbQuery, fbIdx, eps>>
    /\ UNCHANGED <<cacheVars, ffVars, aggVars, mergeVars, extVars>>

\* the call returns: a non-empty result is returned, an empty one moves on
FbEnd ==
    /\ fbPc = "fetching"
    /\ LET u == rss_urls.urls[fbIdx]
           e == fetch_and_filter(urlFeed[u], fbQuery, DefaultLimit)
       IN /\ inflight' = inflight \ {u}
          /\ IF FallbackStops(e)
             THEN eps' = e /\ fbPc' = "returned" /\ UNCHANGED fbIdx
             ELSE fbIdx' = fbIdx + 1 /\ fbPc' = "loop" /\ UNCHANGED eps
    /\ UNCHANGED <<rss_urls, urlFeed, fbQuery, attempts>>
    /\ UNCHANGED <<cacheVars, ffVars, aggVars, mergeVars, extVars>>

\* the list is exhausted: return []
FbExhausted ==
    /\ fbPc = "loop"
    /\ ~rss_urls.isStr
    /\ fbIdx > Len(rss_urls.urls)
    /\ eps' = <<>>
    /\ fbPc' = "returned"
    /\ UNCHANGED <<rss_urls, urlFeed, fbQuery, fbIdx, attempts, inflight>>
    /\ UNCHANGED <<cacheVars, ffVars, aggVars, mergeVars, extVars>>

FallbackNext == FbStr \/ FbBegin \/ FbEnd \/ FbExhausted

SpecFallback == FallbackInit /\ [][FallbackNext]_vars

(***************************************************************************)
(* One aggregation run: fetch_feeds_concurrently, and the worker pool of   *)
(* _podcast_tab                                                            *)
(***************************************************************************)
\* the labels of the source mapping, in the caller's order 1, 2, ...
Labels == 1..MaxLabels

AwareDate == [kind |-> "rfc2822", tz |-> TRUE, t |-> 1]

\* the remote feed of label l: one matching entry, or an undated entry that
\* does not match followed by a dated one that does
RawChoice(l, k) ==
    IF k = 0 THEN <<Entry(MatchingText, AwareDate, l)>>
    ELSE <<Entry(OtherText, Missing, l), Entry(MatchingText, AwareDate, l)>>

NoFuture == [exc |-> FALSE, val |-> <<>>]

\* a task function without its own try/except: the exception of the body
\* becomes the exception of the future
RunTask_Unguarded(m, stored, q) ==
    [exc |-> BodyRaises(stored, q),
     val |-> fetch_and_filter(stored, q, DefaultLimit)]

\* the outcome of the future of executor.submit(fetch_and_filter, ...) or
\* executor.submit(fetch_podcast_with_fallback, ...) (every source of
\* PODCASTS is one URL, a str); stored is what fetch_rss_feed returned
RunTask(m, stored, q) ==
    [exc |-> FALSE,
     val |-> IF m = "feeds"
             THEN fetch_and_filter(stored, q, DefaultLimit)
             ELSE fetch_podcast_with_fallback(
                      [isStr |-> TRUE, urls |-> <<1>>], q, <<stored>>)]

\* results[label] = value on a dict that keeps insertion order
PutResult(res, l, v) ==
    IF \E i \in DOMAIN res : res[i].label = l
    THEN [i \in DOMAIN res |->
            IF res[i].label = l THEN [label |-> l, value |-> v] ELSE res[i]]
    ELSE Append(res, [label |-> l, value |-> v])

\* the state after every task was submitted
AggInit ==
    /\ mode \in {"feeds", "podcasts"}
    /\ \E f \in [Labels -> {0, 1}] : raw = [l \in Labels |-> RawChoice(l, f[l])]
    /\ search_q \in QueryPool
    /\ task = [l \in Labels |-> "queued"]
    /\ net = [l \in Labels |-> "pending"]
    /\ future = [l \in Labels |-> NoFuture]
    /\ results = <<>>
    /\ aggPc = "collecting"
    /\ CacheIdle /\ FilterIdle /\ FallbackIdle /\ MergeIdle /\ ExtIdle

\* a free worker takes the oldest queued task
TaskStart(l) ==
    /\ aggPc = "collecting"
    /\ task[l] = "queued"
    /\ \A k \in Labels : k < l => task[k] # "queued"
    /\ Cardinality({k \in Labels : task[k] \in {"running", "hung"}}) < max_workers
    /\ task' = [task EXCEPT ![l] = "running"]
    /\ UNCHANGED <<mode, raw, search_q, net, future, results, aggPc>>
    /\ UNCHANGED <<cacheVars, ffVars, fbVars, mergeVars, extVars>>

\* the remote source answers, with the feed or with an error, and the task
\* function returns
TaskFinish(l) ==
    /\ aggPc = "collecting"
    /\ task[l] = "running"
    /\ \E answer \in {"ok", "error"} :
          /\ net' = [net EXCEPT ![l] = answer]
          /\ future' = [future EXCEPT
                          ![l] = RunTask(mode, fetch_rss_feed(answer, raw[l]),
                                         search_q)]
    /\ task' = [task EXCEPT ![l] = "done"]
    /\ UNCHANGED <<mode, raw, search_q, results, aggPc>>
    /\ UNCHANGED <<cacheVars, ffVars, fbVars, mergeVars, extVars>>

\* the remote source never answers: feedparser.parse is called without a
\* timeout, so the task stays in it
TaskHang(l) ==
    /\ aggPc = "collecting"
    /\ task[l] = "running"
    /\ net' = [net EXCEPT ![l] = "hang"]
    /\ task' = [task EXCEPT ![l] = "hung"]
    /\ UNCHANGED <<mode, raw, search_q, future, results, aggPc>>
    /\ UNCHANGED <<cacheVars, ffVars, fbVars, mergeVars, extVars>>

\* as_completed yields a finished future and the loop body stores its
\* result: fetch_feeds_concurrently stores [] for a future that raised, the
\* loop of _podcast_tab lets the exception out
Collect(l) ==
    /\ aggPc = "collecting"
    /\ task[l] = "done"
    /\ task' = [task EXCEPT ![l] = "collected"]
    /\ IF future[l].exc /\ mode = "podcasts"
       THEN aggPc' = "raised" /\ UNCHANGED results
       ELSE /\ results' = PutResult(results, l,
                              IF future[l].exc THEN <<>> ELSE future[l].val)
            /\ UNCHANGED aggPc
    /\ UNCHANGED <<mode, raw, search_q, net, future>>
    /\ UNCHANGED <<cacheVars, ffVars, fbVars, mergeVars, extVars>>

\* every future was yielded and the pool has shut down: return the mapping
AggReturn ==
    /\ aggPc = "collecting"
    /\ \A l \in Labels : task[l] = "collected"
    /\ aggPc' = "returned"
    /\ UNCHANGED <<mode, raw, search_q, task, net, future, results>>
    /\ UNCHANGED <<cacheVars, ffVars, fbVars, mergeVars, extVars>>

AggNext ==
    \/ \E l \in Labels : TaskStart(l)
    \/ \E l \in Labels : TaskFinish(l)
    \/ \E l \in Labels : TaskHang(l)
    \/ \E l \in Labels : Collect(l)
    \/ AggReturn

SpecAgg == AggInit /\ [][AggNext]_vars

\* worker threads keep running and the collecting loop keeps taking what
\* has finished
FairSpecAgg == AggInit /\ [][AggNext]_vars /\ WF_vars(AggNext)

(***************************************************************************)
(* The cached fetch_rss_feed: @st.cache_data(ttl=600, max_entries=128)     *)
(***************************************************************************)
FeedUrls == {1, 2}

NoEntry == [present |-> FALSE, value |-> <<>>, at |-> 0]

NoCall ==
    [called |-> FALSE, url |-> 0, at |-> 0, invoked |-> FALSE,
     failed |-> FALSE, ret |-> <<>>, before |-> NoEntry]

\* a cache whose entries never expire
CacheHits_NeverExpires(e, t) == IF e.present THEN {TRUE} ELSE {FALSE}

\* whether a call at time t is served from the stored entry e: yes while it
\* is younger than ttl, no once it is older; at exactly ttl the expiry test
\* of the cache library decides (it differs between its versions)
CacheHits(e, t) ==
    IF ~e.present THEN {FALSE}
    ELSE IF t < e.at + ttl THEN {TRUE}
    ELSE IF t > e.at + ttl THEN {FALSE}
    ELSE {TRUE, FALSE}

\* a cache that never drops an entry
Store_Unbounded(c, u, v, t) ==
    [c EXCEPT ![u] = [present |-> TRUE, value |-> v, at |-> t]]

\* the cache after storing value v for url u at time t; beyond max_entries
\* the oldest other entry is dropped
Store(c, u, v, t) ==
    LET c1 == [c EXCEPT ![u] = [present |-> TRUE, value |-> v, at |-> t]]
        held == {x \in DOMAIN c1 : c1[x].present}
    IN IF Cardinality(held) <= max_entries THEN c1
       ELSE LET old == CHOOSE x \in held \ {u} :
                           \A y \in held \ {u} : c1[x].at <= c1[y].at
            IN [c1 EXCEPT ![old] = NoEntry]

CacheInit ==
    /\ now = 0
    /\ cache = [u \in FeedUrls |-> NoEntry]
    /\ \E f \in [FeedUrls -> {0, 1}] :
          upstream = [u \in FeedUrls |-> RawChoice(u, f[u])]
    /\ lastCall = NoCall
    /\ FilterIdle /\ FallbackIdle /\ AggIdle /\ MergeIdle /\ ExtIdle

\* time passes
Tick ==
    /\ now + Step <= MaxTime
    /\ now' = now + Step
    /\ UNCHANGED <<cache, upstream, lastCall>>
    /\ UNCHANGED <<ffVars, fbVars, aggVars, mergeVars, extVars>>

\* the remote feed of u changes
Publish(u) ==
    /\ \E k \in {0, 1} :
          /\ RawChoice(u, k) # upstream[u]
          /\ upstream' = [upstream EXCEPT ![u] = RawChoice(u, k)]
    /\ UNCHANGED <<now, cache, lastCall>>
    /\ UNCHANGED <<ffVars, fbVars, aggVars, mergeVars, extVars>>

\* a call fetch_rss_feed(u) through the cache: a hit returns the stored
\* value; otherwise the function runs, and whatever it returns, the list of
\* a good fetch or the [] of a failed one, is stored and returned
CachedCall(u) ==
    /\ \E hit \in CacheHits(cache[u], now) :
          IF hit
          THEN /\ lastCall' = [called |-> TRUE, url |-> u, at |-> now,
                               invoked |-> FALSE, failed |-> FALSE,
                               ret |-> cache[u].value, before |-> cache[u]]
               /\ UNCHANGED cache
          ELSE \E answer \in {"ok", "error"} :
                  LET v == fetch_rss_feed(answer, upstream[u])
                  IN /\ cache' = Store(cache, u, v, now)
                     /\ lastCall' = [called |-> TRUE, url |-> u, at |-> now,
                                     invoked |-> TRUE,
                                     failed |-> answer = "error",
                                     ret |-> v, before |-> cache[u]]
    /\ UNCHANGED <<now, upstream>>
    /\ UNCHANGED <<ffVars, fbVars, aggVars, mergeVars, extVars>>

Next ==
    \/ Tick
    \/ \E u \in FeedUrls : Publish(u)
    \/ \E u \in FeedUrls : CachedCall(u)

Spec == CacheInit /\ [][Next]_vars

(***************************************************************************)
(* get_rkt_stock_data: the merge of the historical and the live series     *)
(***************************************************************************)
\* A row is [date, RKT]; NaN is the value pd.to_numeric(errors='coerce')
\* leaves for a cell that is no number.
NaN == -1

DatePool == {1, 2, 3}
PricePool == {10, 11}

Row(d, v) == [date |-> d, RKT |-> v]

\* the frame of the rows f, f a sequence of <<date, value>>
FrameOf(f) == [i \in DOMAIN f |-> Row(f[i][1], f[i][2])]

\* sort_index() has put the rows in date order
IndexSorted(f) == \A i, j \in DOMAIN f : i < j => f[i][1] <= f[j][1]

\* df.empty
Empty(df) == Len(df) = 0

\* the elements of the index set S, ascending
RECURSIVE Ascending(_)
Ascending(S) ==
    IF S = {} THEN <<>>
    ELSE LET m == CHOOSE x \in S : \A y \in S : x <= y
         IN <<m>> \o Ascending(S \ {m})

\* the rows of df, each with its position
Positioned(df) == [i \in DOMAIN df |-> [pos |-> i, row |-> df[i]]]

\* the rows of a selection of positioned rows, in its order
RowsOf(sel) == [k \in DOMAIN sel |-> sel[k].row]

\* keep='first' in place of keep='last'
DropDuplicatedKeepLast_First(df) ==
    RowsOf(SelectSeq(Positioned(df),
                     LAMBDA p : \A j \in DOMAIN df :
                                   j < p.pos => df[j].date # p.row.date))

\* df[~df.index.duplicated(keep='last')]
DropDuplicatedKeepLast(df) ==
    RowsOf(SelectSeq(Positioned(df),
                     LAMBDA p : \A j \in DOMAIN df :
                                   j > p.pos => df[j].date # p.row.date))

\* df.sort_index(): the rows in date order, the rows of one date in the
\* order they had
sort_index(df) == SortSeq(df, LAMBDA a, b : a.date < b.date)

\* df.tail(n)
tail(df, n) == SubSeq(df, Len(df) - Min(n, Len(df)) + 1, Len(df))

\* pd.concat([a, b])
concat(a, b) == a \o b

\* lines 252-270 of get_rkt_stock_data
MergeRkt(hist, live) ==
    IF ~Empty(hist) /\ ~Empty(live)
    THEN tail(sort_index(DropDuplicatedKeepLast(concat(hist, live))),
              MAX_FRED_DAYS)
    ELSE IF ~Empty(hist) THEN tail(sort_index(hist), MAX_FRED_DAYS)
    ELSE IF ~Empty(live) THEN tail(sort_index(live), MAX_FRED_DAYS)
    ELSE <<>>

\* the frame of n rows on n consecutive dates up to last
LongFrame(n, last) == [i \in 1..n |-> Row(last - n + i, 10)]

\* pd.to_datetime of a RangeIndex reads position 0 as the epoch, long before
\* every date of the sheet
Epoch == -1000

\* the frame pd.read_csv makes of n lines that are no price table: rows
\* labelled by position, without a close column
PayloadFrame(n) == [i \in 1..n |-> Row(Epoch + i - 1, NaN)]

\* What the API answers: the request raises, the text is flagged ("Error" or
\* "Invalid" in it), the text is a price table (newest row first or in any
\* order, a close that is no number possible), the text is a message that
\* is not flagged and read_csv parses, or one it does not parse.
ApiAnswers ==
    { [kind |-> k, rows |-> <<>>] : k \in {"exception", "flagged", "unparsed"} }
    \cup { [kind |-> "payload", rows |-> PayloadFrame(n)] : n \in 1..MaxRows }
    \cup { [kind |-> "csv", rows |-> LongFrame(n, 2)] :
              n \in (MAX_FRED_DAYS - 1)..(MAX_FRED_DAYS + 1) }
    \cup UNION { { [kind |-> "csv", rows |-> FrameOf(f)] :
                     f \in [1..n -> DatePool \X (PricePool \cup {NaN})] } :
                 n \in 0..MaxRows }

\* lines 239-250: live_df after the fetch.  A statement after read_csv that
\* raises (no timestamp column) leaves live_df as read_csv made it.
LiveFetch(ans) ==
    IF ans.kind \in {"exception", "flagged", "unparsed"} THEN <<>>
    ELSE IF ans.kind = "csv" THEN sort_index(ans.rows)
    ELSE ans.rows

\* The sheet's rows have a date and a price (dropna) and are in date order;
\* they may repeat a date.
MergeInit ==
    /\ \/ \E n \in 0..MaxRows :
             \E f \in [1..n -> DatePool \X PricePool] :
                 IndexSorted(f) /\ historical_df = FrameOf(f)
       \/ \E n \in (MAX_FRED_DAYS - 1)..(MAX_FRED_DAYS + 1) :
             historical_df = LongFrame(n, 2)
    /\ r_text \in ApiAnswers
    /\ live_df = <<>>
    /\ mPc = "call"
    /\ combined = <<>>
    /\ CacheIdle /\ FilterIdle /\ FallbackIdle /\ AggIdle /\ ExtIdle

MergeCall ==
    /\ mPc = "call"
    /\ live_df' = LiveFetch(r_text)
    /\ combined' = MergeRkt(historical_df, LiveFetch(r_text))
    /\ mPc' = "returned"
    /\ UNCHANGED <<historical_df, r_text>>
    /\ UNCHANGED <<cacheVars, ffVars, fbVars, aggVars, extVars>>

(***************************************************************************)
(* get_mortgage_data: the three rate series in one table                   *)
(***************************************************************************)
\* the keys of urls, in their order
RateNames == <<"30Y Fixed", "15Y Fixed", "10Y Treasury">>

\* a date the series has no row for
Absent == -2

\* what one series holds on a date: no row, a row whose value is no number
\* (errors='coerce' makes it NaN), or a row with a rate
RateCells(name) ==
    IF name = "30Y Fixed" THEN {Absent, NaN, 10, 11} ELSE {Absent, NaN, 10}

\* what the endpoint of a series answers: the fetch or the parse raises, or
\* a table with at most one row per date, in date order
FredAnswers(name) ==
    { [ok |-> FALSE, cells |-> [d \in DatePool |-> Absent]] }
    \cup { [ok |-> TRUE, cells |-> c] : c \in [DatePool -> RateCells(name)] }

\* dfs: the frames of the series whose try block did not raise
Fetched(f) == SelectSeq(RateNames, LAMBDA n : f[n].ok)

\* pd.concat(dfs, axis=1): one row per date of any frame, in date order, and
\* NaN in the columns of the frames that have no row for the date
ConcatColumns(f) ==
    LET names == Range(Fetched(f))
        dates == Ascending({d \in DatePool :
                              \E n \in names : f[n].cells[d] # Absent})
    IN [k \in DOMAIN dates |->
          [date |-> dates[k],
           vals |-> [n \in names |->
                       IF f[n].cells[dates[k]] = Absent THEN NaN
                       ELSE f[n].cells[dates[k]]]]]

\* DataFrame.ffill(): a NaN takes the last value above it in its column
ffill(df) ==
    [i \in DOMAIN df |->
        [date |-> df[i].date,
         vals |-> [n \in DOMAIN df[i].vals |->
                     LET prior == {j \in 1..i : df[j].vals[n] # NaN}
                     IN IF prior = {} THEN NaN
                        ELSE df[CHOOSE j \in prior :
                                    \A k \in prior : k <= j].vals[n]]]]

\* DataFrame.dropna(): the rows without a NaN
dropna(df) == SelectSeq(df, LAMBDA r : \A n \in DOMAIN r.vals : r.vals[n] # NaN)

\* lines 172-176 of get_mortgage_data
get_mortgage_data(f) ==
    IF Fetched(f) = <<>> THEN <<>>
    ELSE tail(dropna(ffill(ConcatColumns(f))), MAX_FRED_DAYS)

MortgageInit ==
    /\ \E a \in FredAnswers("30Y Fixed") :
          \E b \in FredAnswers("15Y Fixed") :
              \E c \in FredAnswers("10Y Treasury") :
                  fred = [n \in Range(RateNames) |->
                            IF n = "30Y Fixed" THEN a
                            ELSE IF n = "15Y Fixed" THEN b ELSE c]
    /\ data = <<>>
    /\ gPc = "call"
    /\ CacheIdle /\ FilterIdle /\ FallbackIdle /\ AggIdle /\ MergeIdle
    /\ GuestIdle /\ TextIdle /\ PipeIdle

MortgageCall ==
    /\ gPc = "call"
    /\ data' = get_mortgage_data(fred)
    /\ gPc' = "returned"
    /\ UNCHANGED fred
    /\ UNCHANGED <<cacheVars, ffVars, fbVars, aggVars, mergeVars, guestVars,
                   textVars, pipeVars>>

\* the two numeric series of the dashboard (lines 565-566)
MergeNext == MergeCall \/ MortgageCall

SpecMerge == (MergeInit \/ MortgageInit) /\ [][MergeNext]_vars

(***************************************************************************)
(* parse_guest                                                             *)
(***************************************************************************)
GuestMin == 3
GuestMax == 50
TitleCut == 45

\* the character at position i of s; "" beyond its ends
At(s, i) == IF i \in DOMAIN s THEN s[i] ELSE ""

\* [A-Z]
UpperLetters == Range(UpperCase)

\* [a-zA-Z]
Letters == Range(UpperCase) \cup Range(LowerCase)

\* \d
Digits == {"0", "1", "2", "3", "4", "5", "6", "7", "8", "9"}

\* \s
Spaces == {" "}

\* [:\s]
ColonSpaces == {":"} \cup Spaces

\* [a-zA-Z\s\.]
NameChars == Letters \cup Spaces \cup {"."}

\* [:\-|] and the two dashes
Separators == {":", "-", "|"}

\* the last position of the longest run of characters of the class cls that
\* starts at i (i - 1 or less when the run is empty): a greedy [cls]*
RunEnd(s, i, cls) ==
    LET stop == {k \in i..Len(s) : s[k] \notin cls}
    IN IF stop = {} THEN Len(s)
       ELSE (CHOOSE k \in stop : \A j \in stop : k <= j) - 1

\* the literal w at position i
LiteralAt(s, i, w) == \A k \in DOMAIN w : At(s, i + k - 1) = w[k]

\* the lower-case literal w at position i, under re.IGNORECASE
LiteralAtCI(s, i, w) == \A k \in DOMAIN w : LowerChar(At(s, i + k - 1)) = w[k]

\* \d+[:\s]+ at position i: the position of its last character, 0 without a
\* match
NumberTag(s, i) ==
    LET d == RunEnd(s, i, Digits)
        c == RunEnd(s, d + 1, ColonSpaces)
    IN IF d >= i /\ c > d THEN c ELSE 0

\* ^(E\d+[:\s]+|Ep\.?\s*\d+[:\s]+|Episode\s*\d+[:\s]+), ignoring case: the
\* position of its last character, 0 without a match
PrefixEnd(s) ==
    LET a1 == IF LiteralAtCI(s, 1, <<"e">>) THEN NumberTag(s, 2) ELSE 0
        dot == IF At(s, 3) = "." THEN 4 ELSE 3
        a2 == IF LiteralAtCI(s, 1, <<"e", "p">>)
              THEN NumberTag(s, RunEnd(s, dot, Spaces) + 1) ELSE 0
        a3 == IF LiteralAtCI(s, 1, <<"e", "p", "i", "s", "o", "d", "e">>)
              THEN NumberTag(s, RunEnd(s, 8, Spaces) + 1) ELSE 0
    IN IF a1 > 0 THEN a1 ELSE IF a2 > 0 THEN a2 ELSE a3

\* line 386: the title without its episode-number prefix
StripPrefix(s) == SubSeq(s, PrefixEnd(s) + 1, Len(s))

NoMatch == [hit |-> FALSE, text |-> <<>>]

\* match.group(1)
Group(s, lo, hi) == [hit |-> TRUE, text |-> SubSeq(s, lo, hi)]

\* [A-Z][a-zA-Z\s\.]+ at position i: the position of its last character, 0
\* without a match
NameEnd(s, i) ==
    LET e == RunEnd(s, i + 1, NameChars)
    IN IF At(s, i) \in UpperLetters /\ e > i THEN e ELSE 0

\* \s+([A-Z][a-zA-Z\s\.]+) after a keyword that ends at position k
SpacedName(s, k) ==
    LET sp == RunEnd(s, k + 1, Spaces)
    IN IF sp > k /\ NameEnd(s, sp + 1) > 0
       THEN Group(s, sp + 1, NameEnd(s, sp + 1)) ELSE NoMatch

\* ([A-Z][a-zA-Z\s\.]+(?:\s+[A-Z][a-zA-Z]+)*)\s*[:\-|] at position i: the
\* name class holds every character the rest of the group and \s* can take,
\* so the separator has to follow the longest run
NameBeforeSeparator(s, i) ==
    LET e == NameEnd(s, i)
    IN IF e > 0 /\ At(s, e + 1) \in Separators THEN Group(s, i, e) ELSE NoMatch

\* "Guest Name: Topic"
Pattern1(s) == NameBeforeSeparator(s, 1)

\* "#123: Guest Name - Topic"
Pattern2(s) ==
    LET c == NumberTag(s, IF At(s, 1) = "#" THEN 2 ELSE 1)
    IN IF c > 0 /\ NameBeforeSeparator(s, c + 1).hit
       THEN NameBeforeSeparator(s, c + 1)
       ELSE NameBeforeSeparator(s, 1)

\* re.search: of the matches ms at positions 1, 2, ..., the leftmost
Leftmost(ms) ==
    LET at == {i \in DOMAIN ms : ms[i].hit}
    IN IF at = {} THEN NoMatch
       ELSE ms[CHOOSE i \in at : \A j \in at : i <= j]

\* [Ww]ith\s+(name) at position i
WithAt(s, i) ==
    IF At(s, i) \in {"W", "w"} /\ LiteralAt(s, i + 1, <<"i", "t", "h">>)
    THEN SpacedName(s, i + 3) ELSE NoMatch

\* "with Guest Name"
Pattern3(s) == Leftmost([i \in DOMAIN s |-> WithAt(s, i)])

\* (?:[Ff]t\.?|[Ff]eaturing)\s+(name) at position i
FeaturingAt(s, i) ==
    IF At(s, i) \in {"F", "f"} /\ At(s, i + 1) = "t"
    THEN SpacedName(s, IF At(s, i + 2) = "." THEN i + 2 ELSE i + 1)
    ELSE IF At(s, i) \in {"F", "f"}
            /\ LiteralAt(s, i + 1, <<"e", "a", "t", "u", "r", "i", "n", "g">>)
    THEN SpacedName(s, i + 8) ELSE NoMatch

\* "ft. Guest Name", "featuring Guest Name"
Pattern4(s) == Leftmost([i \in DOMAIN s |-> FeaturingAt(s, i)])

\* (?:[Ii]nterview|[Cc]onversation)[:\s]+(?:with\s+)?(name) at position i
InterviewAt(s, i) ==
    LET k == IF At(s, i) \in {"I", "i"}
                /\ LiteralAt(s, i + 1, <<"n", "t", "e", "r", "v", "i", "e", "w">>)
             THEN i + 8
             ELSE IF At(s, i) \in {"C", "c"}
                     /\ LiteralAt(s, i + 1, <<"o", "n", "v", "e", "r", "s", "a",
                                              "t", "i", "o", "n">>)
             THEN i + 11 ELSE 0
        c == RunEnd(s, k + 1, ColonSpaces)
    IN IF k = 0 \/ c <= k THEN NoMatch
       ELSE IF LiteralAt(s, c + 1, <<"w", "i", "t", "h">>)
               /\ SpacedName(s, c + 4).hit
       THEN SpacedName(s, c + 4)
       ELSE IF NameEnd(s, c + 1) > 0 THEN Group(s, c + 1, NameEnd(s, c + 1))
       ELSE NoMatch

\* "Interview: Guest Name", "Conversation with Guest Name"
Pattern5(s) == Leftmost([i \in DOMAIN s |-> InterviewAt(s, i)])

\* [A-Z][a-zA-Z]+ at position i: the position of its last character, 0
\* without a match
WordEnd(s, i) ==
    LET e == RunEnd(s, i + 1, Letters)
    IN IF At(s, i) \in UpperLetters /\ e > i THEN e ELSE 0

\* one more \s+[A-Z][a-zA-Z]+ after position e, if there is one
NextWordEnd(s, e) ==
    LET sp == RunEnd(s, e + 1, Spaces)
    IN IF sp > e /\ WordEnd(s, sp + 1) > 0 THEN WordEnd(s, sp + 1) ELSE e

\* ^([A-Z][a-zA-Z]+(?:\s+[A-Z][a-zA-Z]+){0,3}): up to four capitalised words
Pattern6(s) ==
    IF WordEnd(s, 1) = 0 THEN NoMatch
    ELSE Group(s, 1,
               NextWordEnd(s, NextWordEnd(s, NextWordEnd(s, WordEnd(s, 1)))))

\* patterns, in the order they are tried
Patterns(s) ==
    <<Pattern1(s), Pattern2(s), Pattern3(s), Pattern4(s), Pattern5(s),
      Pattern6(s)>>

\* str.strip()
Strip(g) ==
    LET ink == {i \in DOMAIN g : g[i] \notin Spaces}
    IN IF ink = {} THEN <<>>
       ELSE SubSeq(g, CHOOSE i \in ink : \A j \in ink : i <= j,
                      CHOOSE i \in ink : \A j \in ink : i >= j)

Fillers ==
    { <<"o", "n">>, <<"a", "b", "o", "u", "t">>,
      <<"d", "i", "s", "c", "u", "s", "s", "e", "s">>,
      <<"t", "a", "l", "k", "s">>, <<"s", "h", "a", "r", "e", "s">>,
      <<"r", "e", "v", "e", "a", "l", "s">>,
      <<"e", "x", "p", "l", "a", "i", "n", "s">> }

\* line 408: re.sub of \s+(on|about|...)\s*$ on a stripped string, ignoring
\* case: a last word that is a filler goes, with the spaces before it
DropFiller(g) ==
    LET n == Len(g)
        ends == {w \in Fillers :
                    /\ Len(w) < n
                    /\ LiteralAtCI(g, n - Len(w) + 1, w)
                    /\ g[n - Len(w)] \in Spaces}
    IN IF ends = {} THEN g
       ELSE LET w == CHOOSE v \in ends : TRUE
                ink == {i \in 1..(n - Len(w)) : g[i] \notin Spaces}
            IN IF ink = {} THEN <<>>
               ELSE SubSeq(g, 1, CHOOSE i \in ink : \A j \in ink : i >= j)

\* lines 406-408: the guest a match gives
Clean(m) == DropFiller(Strip(m.text))

\* line 409
InRange(g) == GuestMin < Len(g) /\ Len(g) < GuestMax

Ellipsis == <<".", ".", ".">>

\* line 413
LastResort(t) == IF Len(t) > TitleCut THEN SubSeq(t, 1, TitleCut) \o Ellipsis ELSE t

parse_guest(t0) ==
    LET t == StripPrefix(t0)
        ms == Patterns(t)
        good == {k \in DOMAIN ms : ms[k].hit /\ InRange(Clean(ms[k]))}
    IN IF good # {} THEN Clean(ms[CHOOSE k \in good : \A j \in good : k <= j])
       ELSE LastResort(t)

\* c repeated n times
Repeat(c, n) == [i \in 1..n |-> c]

\* the characters of the short titles
TitleAlphabet == {"E", "1", ":", " ", "A", "b"}

\* titles as feeds carry them
TitleSamples ==
    {
      <<"E", "4", "5", ":", " ", "J", "a", "n", "e", " ", "D", "o", "e",
        " ", "o", "n", " ", "B", "u", "i", "l", "d", "i", "n", "g", " ",
        "S", "t", "a", "r", "t", "u", "p", "s">>,
      <<"E", "p", "i", "s", "o", "d", "e", " ", "1", "2", ":", " ">>,
      <<"E", "p", ".", " ", "7", ":", " ", "A", "n", "n", " ", "L", "e",
        "e", " ", "|", " ", "M", "o", "n", "e", "y">>,
      <<"J", "a", "n", "e", " ", "D", "o", "e", " ", "o", "n", ":", " ",
        "M", "o", "n", "e", "y">>,
      <<"#", "1", "2", ":", " ", "J", "a", "n", "e", " ", "D", "o", "e",
        " ", "-", " ", "T", "o", "p", "i", "c">>,
      <<"a", " ", "c", "h", "a", "t", " ", "w", "i", "t", "h", " ", "J",
        "a", "n", "e", " ", "D", "o", "e", " ", "a", "b", "o", "u", "t",
        " ", "r", "a", "t", "e", "s">>,
      <<"S", "o", "f", "t", " ", "S", "k", "i", "l", "l", "s", " ", "f",
        "t", ".", " ", "J", "o", "h", "n", " ", "S", "m", "i", "t", "h">>,
      <<"i", "n", "t", "e", "r", "v", "i", "e", "w", ":", " ", "w", "i",
        "t", "h", " ", "A", "n", "n", " ", "L", "e", "e">>,
      <<"C", "o", "n", "v", "e", "r", "s", "a", "t", "i", "o", "n", " ",
        "B", "o", "b">>,
      <<"A", "I">>,
      Repeat("a", TitleCut + 1),
      <<"A">> \o Repeat("b", GuestMax - 2) \o <<":">>,
      <<"A">> \o Repeat("b", GuestMax - 1) \o <<":">>
    }

\* every title over the alphabet up to MaxTitleLen characters, the empty one
\* included, and the samples
GuestInit ==
    /\ \/ \E n \in 0..MaxTitleLen : title \in [1..n -> TitleAlphabet]
       \/ title \in TitleSamples
    /\ guest = <<>>
    /\ pgPc = "call"
    /\ CacheIdle /\ FilterIdle /\ FallbackIdle /\ AggIdle /\ MergeIdle
    /\ MortgageIdle /\ TextIdle /\ PipeIdle

GuestCall ==
    /\ pgPc = "call"
    /\ guest' = parse_guest(title)
    /\ pgPc' = "returned"
    /\ UNCHANGED title
    /\ UNCHANGED <<cacheVars, ffVars, fbVars, aggVars, mergeVars, mortVars,
                   textVars, pipeVars>>

GuestNext == GuestCall

SpecGuest == GuestInit /\ [][GuestNext]_vars

(***************************************************************************)
(* Text analytics: extract_keywords, analyze_podcast_trends,               *)
(* analyze_emerging_topics                                                 *)
(***************************************************************************)
KeywordMin == 3
CountedGuestMin == 3
ShowMin == 2
TrendingTop == 5
PopularTop == 10
EmergingMax == 2
EmergingTop == 10

\* stop_words
StopWords ==
    {
      <<"t", "h", "e">>,
      <<"a">>,
      <<"a", "n">>,
      <<"a", "n", "d">>,
      <<"o", "r">>,
      <<"b", "u", "t">>,
      <<"i", "n">>,
      <<"o", "n">>,
      <<"a", "t">>,
      <<"t", "o">>,
      <<"f", "o", "r">>,
      <<"o", "f">>,
      <<"w", "i", "t", "h">>,
      <<"i", "s">>,
      <<"a", "r", "e">>,
      <<"w", "a", "s">>,
      <<"w", "e", "r", "e">>,
      <<"w", "i", "l", "l">>,
      <<"h", "a", "s">>,
      <<"h", "a", "v", "e">>,
      <<"h", "a", "d">>,
      <<"t", "h", "i", "s">>,
      <<"t", "h", "a", "t">>,
      <<"t", "h", "e", "s", "e">>,
      <<"t", "h", "o", "s", "e">>,
      <<"f", "r", "o", "m">>,
      <<"b", "y">>,
      <<"a", "s">>,
      <<"i", "t">>,
      <<"i", "t", "s">>,
      <<"t", "h", "e", "i", "r">>,
      <<"w", "h", "a", "t">>,
      <<"w", "h", "i", "c", "h">>,
      <<"w", "h", "o">>,
      <<"h", "o", "w">>,
      <<"w", "h", "y">>,
      <<"w", "h", "e", "n">>
    }

\* text.lower() and re.sub(r'[^a-z0-9\s]', ' ', text), on one character
KeepChar(c) ==
    IF LowerChar(c) \in Range(LowerCase) \cup Digits \cup Spaces
    THEN LowerChar(c) ELSE " "

\* the last position of the word that starts at position i
WordStop(s, i) ==
    LET sp == {k \in i..Len(s) : s[k] \in Spaces}
    IN IF sp = {} THEN Len(s)
       ELSE (CHOOSE k \in sp : \A j \in sp : k <= j) - 1

\* str.split(): the words between runs of white space
Split(s) ==
    LET starts == Ascending({i \in DOMAIN s :
                               /\ s[i] \notin Spaces
                               /\ At(s, i - 1) \in Spaces \cup {""}})
    IN [k \in DOMAIN starts |-> SubSeq(s, starts[k], WordStop(s, starts[k]))]

extract_keywords(text) ==
    LET s == SubSeq([i \in DOMAIN text |-> KeepChar(text[i])], 1, Len(text))
    IN SelectSeq(Split(s), LAMBDA w : Len(w) > KeywordMin /\ w \notin StopWords)

RECURSIVE Concat(_)
\* the lists of ss, one after the other
Concat(ss) == IF ss = <<>> THEN <<>> ELSE Head(ss) \o Concat(Tail(ss))

\* the keys of a dict filled from the sequence xs: its distinct elements, in
\* the order they were first seen
FirstSeen(xs) ==
    RowsOf(SelectSeq(Positioned(xs),
                     LAMBDA p : \A j \in 1..(p.pos - 1) : xs[j] # p.row))

\* one item of a Counter fed the keywords kws
CounterItem(kws, name) ==
    [topic |-> name,
     count |-> Cardinality({i \in DOMAIN kws : kws[i] = name})]

\* the items of a Counter fed the keywords kws, in insertion order
CounterItems(kws) ==
    CHOOSE items \in {[k \in DOMAIN names |-> CounterItem(kws, names[k])] :
                         names \in {FirstSeen(kws)}} : TRUE

\* Counter.most_common(n): by count, largest first, equal counts in
\* insertion order
most_common(items, n) ==
    Take(SortSeq(items, LAMBDA a, b : a.count > b.count), n)

\* the keywords of every title of the mapping d, in iteration order
TitleKeywords(d) ==
    Concat([i \in DOMAIN d |->
              Concat([j \in DOMAIN d[i].items |->
                        extract_keywords(d[i].items[j].title)])])

\* lines 435-446: the (guest, show) of every episode whose guest is counted
GuestMentions(d) ==
    SelectSeq(Concat([i \in DOMAIN d |->
                        [j \in DOMAIN d[i].items |->
                           [guest |-> parse_guest(d[i].items[j].title),
                            show |-> d[i].label]]]),
              LAMBDA m : m.guest # <<>> /\ Len(m.guest) > CountedGuestMin)

\* guest_shows[name] after the loop over the counted mentions ms: the shows
\* the guest was seen on, each once, in the order seen
ShowsOf(ms, name) ==
    [guest |-> name,
     shows |-> FirstSeen(RowsOf(SelectSeq([k \in DOMAIN ms |->
                                             [row |-> ms[k].show,
                                              guest |-> ms[k].guest]],
                                          LAMBDA m : m.guest = name)))]

\* guest_shows after the loop over the counted mentions ms, in insertion order
guest_shows(ms) ==
    CHOOSE gs \in {[g \in DOMAIN names |-> ShowsOf(ms, names[g])] :
                      names \in {FirstSeen([k \in DOMAIN ms |-> ms[k].guest])}} :
        TRUE

\* a guest of any show counts as trending
IsTrending_AnyShow(r) == Len(r.shows) >= 1

\* line 454: len(shows) >= 2
IsTrending(r) == Len(r.shows) >= ShowMin

\* lines 454-460: trending_guests[:5], ms being the counted mentions
trending(ms) ==
    Take(SortSeq(SelectSeq(guest_shows(ms), IsTrending),
                 LAMBDA a, b : Len(a.shows) > Len(b.shows)),
         TrendingTop)

\* analyze_podcast_trends: one pass over the episodes, then the two results
analyze_podcast_trends(d) ==
    CHOOSE r \in {[trending_guests |-> trending(ms),
                   popular_topics |-> most_common(CounterItems(kws), PopularTop)] :
                     ms \in {GuestMentions(d)}, kws \in {TitleKeywords(d)}} :
        TRUE

\* lines 467-477: the (keyword, source) of every keyword of every title
KeywordMentions(d) ==
    Concat([i \in DOMAIN d |->
              Concat([j \in DOMAIN d[i].items |->
                        LET kws == extract_keywords(d[i].items[j].title)
                        IN [k \in DOMAIN kws |->
                              [kw |-> kws[k], source |-> d[i].label]]])])

\* a keyword counted up to three times is emerging
IsEmerging_UpToThree(r) == 1 <= r.count /\ r.count <= EmergingMax + 1

\* line 480: 1 <= count <= 2
IsEmerging(r) == 1 <= r.count /\ r.count <= EmergingMax

\* (topic, count, topic_sources[topic]) of one counted keyword, ms being the
\* keyword mentions
TopicRecord(ms, item) ==
    [topic |-> item.topic,
     count |-> item.count,
     sources |-> FirstSeen(RowsOf(SelectSeq([k \in DOMAIN ms |->
                                               [row |-> ms[k].source,
                                                kw |-> ms[k].kw]],
                                            LAMBDA m : m.kw = item.topic)))]

\* lines 480-483 over the keyword mentions ms
emerging_of(ms) ==
    CHOOSE r \in {Take(SortSeq(SelectSeq([k \in DOMAIN counted |->
                                            TopicRecord(ms, counted[k])],
                                         IsEmerging),
                               LAMBDA a, b : a.count < b.count),
                       EmergingTop) :
                     counted \in {CounterItems([k \in DOMAIN ms |-> ms[k].kw])}} :
        TRUE

analyze_emerging_topics(d) ==
    CHOOSE r \in {emerging_of(ms) : ms \in {KeywordMentions(d)}} : TRUE

\* episode titles of podcast feeds
EpisodeTitles ==
    <<
      <<"A", "n", "n", "a", " ", "L", "e", "e", ":", " ", "m", "o", "n",
        "e", "y">>,
      <<"R", "a", "t", "e", "s", " ", "w", "i", "t", "h", " ", "B", "e",
        "r", "t", " ", "C", "o", "l", "e">>,
      <<"E", "7", ":", " ", "C", "a", "r", "l", " ", "R", "a", "y", " ",
        "o", "n", " ", "r", "a", "t", "e", "s">>,
      <<"D", "o", "r", "a", " ", "M", "a", "y", " ", "|", " ", "h", "o",
        "u", "s", "i", "n", "g">>,
      <<"E", "m", "m", "a", " ", "R", "o", "e", " ", "-", " ", "c", "r",
        "e", "d", "i", "t">>,
      <<"F", "r", "e", "d", " ", "P", "o", "e", ":", " ", "l", "e", "n",
        "d", "i", "n", "g">>,
      <<"C", "h", "a", "t", " ", "w", "i", "t", "h", " ", "A", "n", "n",
        "a", " ", "L", "e", "e">>,
      <<"A", "I">>,
      <<>>
    >>

\* article titles of news feeds
NewsTitles ==
    <<
      <<"M", "o", "r", "t", "g", "a", "g", "e", " ", "r", "a", "t", "e",
        "s", " ", "r", "i", "s", "e">>,
      <<"R", "a", "t", "e", "s", ",", " ", "R", "A", "T", "E", "S", " ",
        "a", "n", "d", " ", "m", "o", "r", "e", " ", "r", "a", "t", "e",
        "s", "!">>,
      <<"H", "o", "u", "s", "i", "n", "g", " ", "m", "a", "r", "k", "e",
        "t", " ", "o", "u", "t", "l", "o", "o", "k", " ", "w", "i", "t",
        "h", " ", "f", "i", "n", "t", "e", "c", "h", " ", "l", "e", "n",
        "d", "e", "r", "s">>,
      <<"R", "e", "f", "i", "n", "a", "n", "c", "e", " ", "b", "o", "o",
        "m", ":", " ", "c", "r", "e", "d", "i", "t", " ", "u", "n", "i",
        "o", "n", "s", " ", "g", "a", "i", "n", " ", "s", "h", "a", "r",
        "e">>,
      <<"J", "u", "m", "b", "o", " ", "l", "o", "a", "n", "s", ";", " ",
        "a", "p", "p", "r", "a", "i", "s", "a", "l", " ", "w", "a", "i",
        "v", "e", "r", "s", ";", " ", "t", "i", "t", "l", "e", " ", "i",
        "n", "s", "u", "r", "a", "n", "c", "e">>
    >>

\* the entries fetch_and_filter returns for the titles at the positions ix
\* of the catalogue
ItemsOf(catalogue, ix) ==
    [j \in DOMAIN ix |->
        Entry([title |-> catalogue[ix[j]], summary |-> <<>>], Missing, j)]

\* what one show may hold
EpisodeLists ==
    { <<>>, <<1, 2, 3, 4, 5, 6>>, <<6, 5, 4, 3, 2, 1>>, <<6, 6>>,
      <<7, 8, 9>>, <<8>> }

\* what one news source may hold (limit=4)
ArticleLists ==
    { <<>>, <<2>>, <<1, 3>>, <<3, 4>>, <<4, 5, 3>>, <<1, 1, 2>> }

\* st.session_state['podcast_data'], one key per show
PodcastInit ==
    /\ \E f \in [1..MaxShows -> EpisodeLists] :
          podcast_data = [i \in 1..MaxShows |->
                            [label |-> i, items |-> ItemsOf(EpisodeTitles, f[i])]]
    /\ news_data = <<>>
    /\ trending_guests = <<>>
    /\ popular_topics = <<>>
    /\ emerging = <<>>
    /\ taPc = "podcasts"
    /\ CacheIdle /\ FilterIdle /\ FallbackIdle /\ AggIdle /\ MergeIdle
    /\ MortgageIdle /\ GuestIdle /\ PipeIdle

\* news_data, one key per feed
NewsInit ==
    /\ \E f \in [1..MaxShows -> ArticleLists] :
          news_data = [i \in 1..MaxShows |->
                         [label |-> i, items |-> ItemsOf(NewsTitles, f[i])]]
    /\ podcast_data = <<>>
    /\ trending_guests = <<>>
    /\ popular_topics = <<>>
    /\ emerging = <<>>
    /\ taPc = "news"
    /\ CacheIdle /\ FilterIdle /\ FallbackIdle /\ AggIdle /\ MergeIdle
    /\ MortgageIdle /\ GuestIdle /\ PipeIdle

\* line 819
TrendsCall ==
    /\ taPc = "podcasts"
    /\ \E r \in {analyze_podcast_trends(podcast_data)} :
          /\ trending_guests' = r.trending_guests
          /\ popular_topics' = r.popular_topics
    /\ taPc' = "trends"
    /\ UNCHANGED <<podcast_data, news_data, emerging>>
    /\ UNCHANGED <<cacheVars, ffVars, fbVars, aggVars, mergeVars, mortVars,
                   guestVars, pipeVars>>

\* line 836
EmergingCall ==
    /\ taPc = "news"
    /\ emerging' = analyze_emerging_topics(news_data)
    /\ taPc' = "emerging"
    /\ UNCHANGED <<podcast_data, news_data, trending_guests, popular_topics>>
    /\ UNCHANGED <<cacheVars, ffVars, fbVars, aggVars, mergeVars, mortVars,
                   guestVars, pipeVars>>

TextNext == TrendsCall \/ EmergingCall

SpecText == (PodcastInit \/ NewsInit) /\ [][TextNext]_vars

(***************************************************************************)
(* The cached fetch_rss_feed called on more URLs than the cache holds      *)
(***************************************************************************)
\* the cache keys: more URLs than max_entries
ManyUrls == 1..(max_entries + MaxExtraUrls)

\* a remote feed of more entries than are kept, the first with a summary
\* longer than is kept
LongFeed ==
    [i \in 1..(MAX_ENTRIES_PER_FEED + 1) |->
        Entry([title |-> <<"A", "b">>,
               summary |-> IF i = 1 THEN Repeat("a", SummaryMax + 1) ELSE <<>>],
              AwareDate, i)]

\* the remote feeds: URL 1 long, URL 2 short, every other one without entries
RemoteFeed(u) ==
    IF u = 1 THEN LongFeed ELSE IF u = 2 THEN RawChoice(u, 1) ELSE <<>>

\* the URLs the cache holds
Held == {u \in DOMAIN cache : cache[u].present}

\* the URLs called next: the first two again, or the one after the last held
NextUrls ==
    {1, 2} \cup {u \in ManyUrls : /\ u > 2
                                  /\ \A h \in Held : h < u
                                  /\ u = 3 \/ cache[u - 1].present}

BoundInit ==
    /\ now = 0
    /\ cache = [u \in ManyUrls |-> NoEntry]
    /\ upstream = [u \in ManyUrls |-> RemoteFeed(u)]
    /\ lastCall = NoCall
    /\ FilterIdle /\ FallbackIdle /\ AggIdle /\ MergeIdle /\ ExtIdle

BoundNext == \E u \in NextUrls : CachedCall(u)

SpecBound == BoundInit /\ [][BoundNext]_vars

(***************************************************************************)
(* Claims about the fetch/filter/sort pipeline (SpecPipe)                  *)
(***************************************************************************)
\* every entry of the remote feed, as a slim record, that matches the query
UpstreamMatches ==
    SelectSeq([i \in DOMAIN remote |-> Slim(remote[i])],
              LAMBDA e : query = <<>> \/ Matches(e, query))

\* C15: when the fetch succeeds and the dates of the matching entries can be
\* compared, the pipeline returns the limit newest of ALL upstream entries
\* that match the query: as many as the limit allows, each a matching
\* upstream entry, newest first, and none left out that is newer than one
\* returned.
C15_RanksAllUpstream ==
    ffPc = "piped" /\ reply = "ok" /\ ~SortRaises(UpstreamMatches) =>
        \E m \in {UpstreamMatches} :
           /\ Len(ffResult) = Min(limit, Len(m))
           /\ \A k \in DOMAIN ffResult : ffResult[k] \in Range(m)
           /\ \A k, l \in DOMAIN ffResult :
                 /\ k # l => ffResult[k].link # ffResult[l].link
                 /\ k < l => parse_date(ffResult[k].published).t
                               >= parse_date(ffResult[l].published).t
           /\ \A x \in DOMAIN m :
                 m[x] \notin Range(ffResult) =>
                    \A k \in DOMAIN ffResult :
                       parse_date(ffResult[k].published).t
                          >= parse_date(m[x].published).t

(***************************************************************************)
(* Claims about the text analytics (SpecText)                              *)
(***************************************************************************)
\* the entity name and the label of every episode of podcast_data
Named ==
    Concat([i \in DOMAIN podcast_data |->
              [j \in DOMAIN podcast_data[i].items |->
                 [guest |-> parse_guest(podcast_data[i].items[j].title),
                  show |-> podcast_data[i].label]]])

\* the labels under which an episode of ms names the entity g
LabelsOf(ms, g) == {ms[k].show : k \in {x \in DOMAIN ms : ms[x].guest = g}}

\* the entities of the trending list
Returned == {trending_guests[k].guest : k \in DOMAIN trending_guests}

\* an entity under n labels is left out because five entities with at least
\* as many labels fill the list
CutByTop(n) ==
    /\ Len(trending_guests) = TrendingTop
    /\ \A k \in DOMAIN trending_guests : Len(trending_guests[k].shows) >= n

\* what the trending list always satisfies, ms being the named episodes: two
\* or more labels per entity, each entity once with exactly its labels,
\* non-increasing label counts, at most five entities
TrendingListSound(ms) ==
    /\ \A k \in DOMAIN trending_guests :
          /\ Cardinality(LabelsOf(ms, trending_guests[k].guest)) >= ShowMin
          /\ Range(trending_guests[k].shows)
                = LabelsOf(ms, trending_guests[k].guest)
          /\ Len(trending_guests[k].shows)
                = Cardinality(LabelsOf(ms, trending_guests[k].guest))
    /\ \A k, l \in DOMAIN trending_guests :
          /\ k < l => Len(trending_guests[k].shows) >= Len(trending_guests[l].shows)
          /\ k # l => trending_guests[k].guest # trending_guests[l].guest
    /\ Len(trending_guests) <= TrendingTop

\* C12 as stated: every returned entity appears under two or more distinct
\* labels, the list is in non-increasing order of label count and holds at most
\* 5 entities, and every entity under two or more labels is returned unless
\* the top-5 limit cuts it.
C12_TrendingAsStated ==
    taPc = "trends" =>
        LET ms == Named
        IN /\ TrendingListSound(ms)
           /\ \A x \in DOMAIN ms :
                 Cardinality(LabelsOf(ms, ms[x].guest)) >= ShowMin
                     => \/ ms[x].guest \in Returned
                        \/ CutByTop(Cardinality(LabelsOf(ms, ms[x].guest)))

\* C12 amended: the same, where only an entity name of more than 3 characters
\* under two or more labels must be returned unless the top-5 limit cuts it,
\* and a name of 3 characters or fewer is never returned.
C12_TrendingLongNames ==
    taPc = "trends" =>
        LET ms == Named
        IN /\ TrendingListSound(ms)
           /\ \A g \in Returned : Len(g) > CountedGuestMin
           /\ \A x \in DOMAIN ms :
                 /\ Len(ms[x].guest) > CountedGuestMin
                 /\ Cardinality(LabelsOf(ms, ms[x].guest)) >= ShowMin
                 => \/ ms[x].guest \in Returned
                    \/ CutByTop(Cardinality(LabelsOf(ms, ms[x].guest)))

\* five entities are returned, the first under more labels than the last, a
\* sixth entity under two labels is cut, and a short name under two labels is
\* left out
C12_Witness ==
    /\ taPc = "trends"
    /\ Len(trending_guests) = TrendingTop
    /\ Len(trending_guests[1].shows) > Len(trending_guests[TrendingTop].shows)
    /\ LET ms == Named
       IN /\ \E x \in DOMAIN ms :
                /\ Len(ms[x].guest) > CountedGuestMin
                /\ Cardinality(LabelsOf(ms, ms[x].guest)) >= ShowMin
                /\ ms[x].guest \notin Returned
          /\ \E x \in DOMAIN ms :
                /\ ms[x].guest # <<>>
                /\ Len(ms[x].guest) <= CountedGuestMin

\* total frequency of kw among the keyword occurrences ms
TotalFrequency(ms, kw) == Cardinality({k \in DOMAIN ms : ms[k].kw = kw})

\* the labels under which kw stands among the keyword occurrences ms
SourcesOf(ms, kw) == {ms[k].source : k \in {x \in DOMAIN ms : ms[x].kw = kw}}

\* the keywords of the emerging list
EmergingTopics == {emerging[k].topic : k \in DOMAIN emerging}

\* a keyword of frequency n is left out because ten keywords that are no
\* more frequent fill the list
CutByTopTen(n) ==
    /\ Len(emerging) = EmergingTop
    /\ \A k \in DOMAIN emerging : emerging[k].count <= n

\* C13: analyze_emerging_topics never returns a keyword of total frequency 3
\* or more; a keyword of total frequency 1 or 2 is returned unless the top-10
\* cut, taken in ascending frequency order, leaves it out; each record carries
\* the keyword's total frequency and exactly its distinct source labels.
C13_EmergingRareOnly ==
    taPc = "emerging" =>
        LET ms == KeywordMentions(news_data)
        IN /\ \A k \in DOMAIN emerging :
                 /\ TotalFrequency(ms, emerging[k].topic) \in 1..EmergingMax
                 /\ emerging[k].count = TotalFrequency(ms, emerging[k].topic)
                 /\ Range(emerging[k].sources) = SourcesOf(ms, emerging[k].topic)
                 /\ Len(emerging[k].sources)
                       = Cardinality(SourcesOf(ms, emerging[k].topic))
           /\ \A k, l \in DOMAIN emerging :
                 /\ k < l => emerging[k].count <= emerging[l].count
                 /\ k # l => emerging[k].topic # emerging[l].topic
           /\ Len(emerging) <= EmergingTop
           /\ \A x \in DOMAIN ms :
                 TotalFrequency(ms, ms[x].kw) \in 1..EmergingMax
                     => \/ ms[x].kw \in EmergingTopics
                        \/ CutByTopTen(TotalFrequency(ms, ms[x].kw))

\* ten keywords are returned, frequency 1 before frequency 2, one of them
\* under two labels, a keyword of frequency 2 is cut and a keyword of
\* frequency 3 or more is left out
C13_Witness ==
    /\ taPc = "emerging"
    /\ Len(emerging) = EmergingTop
    /\ emerging[1].count = 1
    /\ emerging[EmergingTop].count = EmergingMax
    /\ \E k \in DOMAIN emerging : Len(emerging[k].sources) = 2
    /\ LET ms == KeywordMentions(news_data)
       IN /\ \E x \in DOMAIN ms :
                /\ TotalFrequency(ms, ms[x].kw) = EmergingMax
                /\ ms[x].kw \notin EmergingTopics
          /\ \E x \in DOMAIN ms : TotalFrequency(ms, ms[x].kw) > EmergingMax

(***************************************************************************)
(* Claims about the size of the feed cache (SpecBound)                     *)
(***************************************************************************)
\* C18: after any sequence of fetch_rss_feed calls the cache holds at most
\* max_entries (128) entries, each entry holds at most MAX_ENTRIES_PER_FEED
\* records, and the summary of every stored record has at most 300
\* characters.
C18_CacheBounded ==
    /\ Cardinality(Held) <= max_entries
    /\ \A u \in Held :
          /\ Len(cache[u].value) <= MAX_ENTRIES_PER_FEED
          /\ \A i \in DOMAIN cache[u].value :
                Len(cache[u].value[i].summary) <= SummaryMax

\* more URLs have been stored than the cache holds, the cache is full, and it
\* holds a feed cut to MAX_ENTRIES_PER_FEED records with a summary cut to 300
\* characters
C18_Witness ==
    /\ Cardinality(Held) = max_entries
    /\ cache[max_entries + 1].present
    /\ \E u \in Held :
          /\ Len(upstream[u]) > MAX_ENTRIES_PER_FEED
          /\ Len(cache[u].value) = MAX_ENTRIES_PER_FEED
          /\ \E i \in DOMAIN cache[u].value :
                /\ Len(upstream[u][i].summary) > SummaryMax
                /\ Len(cache[u].value[i].summary) = SummaryMax

(***************************************************************************)
(* Claims about fetch_and_filter (SpecFilter)                              *)
(***************************************************************************)
\* the entries of the stored feed that the query selects, in feed order
Expected(es, q) ==
    SelectSeq(es, LAMBDA e : q = <<>> \/ Contains(Lower(e.title), q)
                                      \/ Contains(Lower(e.summary), q))

Unparseable(e) == e.published.kind \in {"missing", "garbage"}

\* the instant an entry's date denotes; none sorts as the minimum
InstantOf(e) == IF Unparseable(e) THEN 0 ELSE e.published.t

\* C7: with limit at least the number of entries, fetch_and_filter returns
\* exactly the entries whose lower-cased title or summary contains the query,
\* and every entry when the query is empty.
C7_FilterExact ==
    (ffPc = "returned" /\ limit >= Len(entries))
        => Range(ffResult) = Range(Expected(entries, query))

\* C8: the returned list is newest first, entries without a parseable date
\* come after every entry with one, and entries with equal dates keep their
\* order in the feed.
C8_SortedNewestFirstStable ==
    ffPc = "returned" =>
        \A i, j \in DOMAIN ffResult :
            i < j =>
                /\ InstantOf(ffResult[i]) >= InstantOf(ffResult[j])
                /\ ~(Unparseable(ffResult[i]) /\ ~Unparseable(ffResult[j]))
                /\ InstantOf(ffResult[i]) = InstantOf(ffResult[j])
                      => ffResult[i].link < ffResult[j].link

\* C8 witness: a filtered call returned three entries, the dated one moved
\* ahead of an undated one, and the two undated ones kept their feed order.
C8_Witness ==
    /\ ffPc = "returned"
    /\ query # <<>>
    /\ Len(ffResult) = 3
    /\ ffResult[1].link = 2 /\ ~Unparseable(ffResult[1])
    /\ ffResult[2].link = 1 /\ Unparseable(ffResult[2])
    /\ ffResult[3].link = 3 /\ Unparseable(ffResult[3])

\* C9: when two or more entries match and one of them has a missing or
\* unparseable date, fetch_and_filter still returns all matching entries up
\* to limit.
C9_MalformedEntryKeepsBatch ==
    LET m == Expected(entries, query)
    IN (ffPc = "returned" /\ Len(m) >= 2
          /\ \E i \in DOMAIN m : Unparseable(m[i]))
        => Len(ffResult) = Min(limit, Len(m))

(***************************************************************************)
(* Claims about the merge (SpecMerge)                                      *)
(***************************************************************************)
DatesOf(df) == {df[i].date : i \in DOMAIN df}

ValuesAt(df, d) == {df[i].RKT : i \in {k \in DOMAIN df : df[k].date = d}}

\* d is among the MAX_FRED_DAYS latest dates of the two inputs
Retained(d) ==
    Cardinality({x \in DatesOf(historical_df) \cup DatesOf(live_df) : x > d})
        < MAX_FRED_DAYS

\* C10: with both inputs non-empty, the merged series has one row for every
\* retained date; on a date of both inputs its value is a live value, on a
\* date of one input it is that input's value.
C10_LiveWinsOnOverlap ==
    (mPc = "returned" /\ ~Empty(historical_df) /\ ~Empty(live_df)) =>
        \A d \in DatesOf(historical_df) \cup DatesOf(live_df) :
            Retained(d) =>
                /\ Cardinality({i \in DOMAIN combined : combined[i].date = d}) = 1
                /\ ValuesAt(combined, d) \subseteq
                      IF d \in DatesOf(live_df)
                      THEN ValuesAt(live_df, d)
                      ELSE ValuesAt(historical_df, d)

\* C10 witness: the merge returned for inputs that share a date on which
\* their values differ, each with a date of its own.
C10_Witness ==
    /\ mPc = "returned"
    /\ \E d \in DatesOf(historical_df) \cap DatesOf(live_df) :
          ValuesAt(historical_df, d) \cap ValuesAt(live_df, d) = {}
    /\ DatesOf(historical_df) \ DatesOf(live_df) # {}
    /\ DatesOf(live_df) \ DatesOf(historical_df) # {}
    /\ Len(combined) = 3

\* the rows the live endpoint served; none when its fetch failed
LiveInput == IF r_text.kind = "csv" THEN r_text.rows ELSE <<>>

\* out is the last n rows of rows in date order
IsLastOf(out, rows, n) ==
    /\ Len(out) = Min(Len(rows), n)
    /\ Range(out) \subseteq Range(rows)
    /\ \A i, j \in DOMAIN out : i < j => out[i].date <= out[j].date
    /\ \A r \in Range(rows) \ Range(out) :
          \A q \in Range(out) : r.date <= q.date

\* C11: with one input available the merge returns that input's last
\* MAX_FRED_DAYS rows, with none an empty series; a failed fetch never puts
\* a row in the result that neither input held; the result has at most
\* MAX_FRED_DAYS rows and no date left out is later than a date kept.
C11_DegradesToAvailable ==
    mPc = "returned" =>
        /\ (~Empty(historical_df) /\ Empty(LiveInput))
              => IsLastOf(combined, historical_df, MAX_FRED_DAYS)
        /\ (Empty(historical_df) /\ ~Empty(LiveInput))
              => IsLastOf(combined, LiveInput, MAX_FRED_DAYS)
        /\ (Empty(historical_df) /\ Empty(LiveInput)) => combined = <<>>
        /\ Range(combined) \subseteq Range(historical_df) \cup Range(LiveInput)
        /\ Len(combined) <= MAX_FRED_DAYS
        /\ \A d \in (DatesOf(historical_df) \cup DatesOf(LiveInput))
                        \ DatesOf(combined) :
              \A e \in DatesOf(combined) : d < e

\* C16: the index of every series the merge returns is strictly increasing,
\* so without a repeated date.
C16_IndexUniqueIncreasing ==
    mPc = "returned" =>
        \A i, j \in DOMAIN combined :
            i < j => combined[i].date < combined[j].date

\* the cell of series n on the date of row i of the returned table is missing
MissingAtSource(i, n) == fred[n].cells[data[i].date] \in {Absent, NaN}

\* C17: in the merged stock series and in the combined rate table, no row
\* below a row with a value is without one, and a row whose own value is
\* missing carries the value of the row before it.
C17_ForwardFilled ==
    /\ mPc = "returned" =>
          \A i \in DOMAIN combined :
              combined[i].RKT = NaN => \A j \in 1..i : combined[j].RKT = NaN
    /\ gPc = "returned" =>
          \A i \in DOMAIN data : \A n \in DOMAIN data[i].vals :
              /\ data[i].vals[n] = NaN
                    => \A j \in 1..i : data[j].vals[n] = NaN
              /\ (i > 1 /\ MissingAtSource(i, n))
                    => data[i].vals[n] = data[i - 1].vals[n]

(***************************************************************************)
(* Claims about parse_guest (SpecGuest)                                    *)
(***************************************************************************)
\* C14: for every title, the empty one and one that is only an episode
\* prefix included, parse_guest returns a non-empty string of bounded
\* length: one of more than 3 and fewer than 50 characters, or else the
\* title without its prefix, cut to 45 characters and an ellipsis.
C14_GuestNonEmptyBounded ==
    pgPc = "returned" =>
        /\ guest # <<>>
        /\ Len(guest) < GuestMax
        /\ \/ GuestMin < Len(guest) /\ Len(guest) < GuestMax
           \/ /\ Len(StripPrefix(title)) <= TitleCut
              /\ guest = StripPrefix(title)
           \/ /\ Len(StripPrefix(title)) > TitleCut
              /\ guest = SubSeq(StripPrefix(title), 1, TitleCut) \o Ellipsis

(***************************************************************************)
(* Claims about the fallback chain (SpecFallback)                          *)
(***************************************************************************)
\* the filtered result of the i-th URL of the chain
ChainResult(i) ==
    fetch_and_filter(urlFeed[rss_urls.urls[i]], fbQuery, DefaultLimit)

\* C3: the URLs of a chain are attempted in declared order, one at a time,
\* the next only after the one before returned an empty result, none after
\* the first non-empty result, and that result (or [] if there is none) is
\* what is returned.
C3_FallbackInOrder ==
    ~rss_urls.isStr =>
        /\ Cardinality(inflight) <= 1
        /\ fbPc = "fetching" => inflight = {attempts[Len(attempts)]}
        /\ fbPc # "fetching" => inflight = {}
        /\ Len(attempts) <= Len(rss_urls.urls)
        /\ \A i \in DOMAIN attempts :
              /\ attempts[i] = rss_urls.urls[i]
              /\ i < Len(attempts) => ChainResult(i) = <<>>
        /\ fbPc = "returned" =>
              LET hit == {i \in DOMAIN rss_urls.urls : ChainResult(i) # <<>>}
              IN IF hit = {}
                 THEN eps = <<>> /\ Len(attempts) = Len(rss_urls.urls)
                 ELSE LET k == CHOOSE i \in hit : \A j \in hit : i <= j
                      IN eps = ChainResult(k) /\ Len(attempts) = k

\* C3 witness: a chain of three distinct URLs returned the second URL's
\* result after the first gave nothing; the third, which also has a result,
\* was not attempted.
C3_Witness ==
    /\ fbPc = "returned"
    /\ ~rss_urls.isStr
    /\ Len(rss_urls.urls) = 3
    /\ Cardinality(Range(rss_urls.urls)) = 3
    /\ attempts = SubSeq(rss_urls.urls, 1, 2)
    /\ eps # <<>>
    /\ eps = ChainResult(2)
    /\ ChainResult(3) # <<>>

(***************************************************************************)
(* Claims about the aggregation run (SpecAgg, FairSpecAgg)                 *)
(***************************************************************************)
\* what label l maps to when its own fetch fails, and when it does not
ExpectedFor(l) ==
    IF net[l] = "error" THEN <<>>
    ELSE fetch_and_filter(fetch_rss_feed("ok", raw[l]), search_q, DefaultLimit)

\* C4: a run never raises to the caller, and the returned mapping has one
\* key per label, [] for a label whose fetch failed and, for every other
\* label, the entries its own feed gives, whatever happened to other tasks.
C4_FailureIsolated ==
    /\ aggPc # "raised"
    /\ aggPc = "returned" =>
          /\ Len(results) = Cardinality(Labels)
          /\ {results[i].label : i \in DOMAIN results} = Labels
          /\ \A i \in DOMAIN results :
                results[i].value = ExpectedFor(results[i].label)

\* C4 witness: the podcast pool returned with one label whose fetch failed,
\* one whose task body raised, and one with entries.
C4_Witness ==
    /\ aggPc = "returned"
    /\ mode = "podcasts"
    /\ \E a, b, c \in Labels :
          /\ net[a] = "error"
          /\ net[b] = "ok" /\ BodyRaises(fetch_rss_feed("ok", raw[b]), search_q)
          /\ net[c] = "ok"
          /\ \E i \in DOMAIN results :
                results[i].label = c /\ results[i].value # <<>>

\* C5: every aggregation run eventually returns its mapping.
C5_RunTerminates == <>(aggPc = "returned")

\* C6: the labels of the returned mapping iterate in the caller's source
\* order, whatever the order in which the tasks completed.
C6_CallerOrder ==
    aggPc = "returned" => \A i \in DOMAIN results : results[i].label = i

(***************************************************************************)
(* Claims about the cache (Spec)                                           *)
(***************************************************************************)
\* C1: a call made before t0 + ttl, t0 the time of the call that fetched the
\* stored entry, returns the stored value without invoking the fetch; a call
\* made after t0 + ttl invokes it.
C1_TtlHonoured ==
    (lastCall.called /\ lastCall.before.present) =>
        /\ lastCall.at < lastCall.before.at + ttl =>
              ~lastCall.invoked /\ lastCall.ret = lastCall.before.value
        /\ lastCall.at > lastCall.before.at + ttl => lastCall.invoked

\* C1 witness: a call after the entry's ttl invoked the fetch and got a
\* value other than the one that had been served from the cache until then.
C1_Witness ==
    /\ lastCall.called
    /\ lastCall.before.present
    /\ lastCall.at > lastCall.before.at + ttl
    /\ lastCall.invoked
    /\ lastCall.ret # lastCall.before.value
    /\ cache[lastCall.url].at = lastCall.at

\* C2: a call whose fetch failed leaves the key as it was, with its previous
\* entry or absent.
C2_FailureNotCached ==
    (lastCall.called /\ lastCall.invoked /\ lastCall.failed) =>
        cache[lastCall.url] = lastCall.before

====
